---- MODULE Spec2Model ----
(***************************************************************************)
(* Model of organizer/organize_media.py: the download organizer.           *)
(*                                                                         *)
(* main() either runs one sweep (--once) or serves POST /scan-once on a    *)
(* single-threaded HTTPServer.  A sweep walks DOWNLOADS_DIR, and for each  *)
(* file runs process_file inside a per-file try/except.                    *)
(*                                                                         *)
(* Conventions: an absent integer (Python None) is None == -1, an absent   *)
(* string is "".  Paths are strings built as the f-strings build them.     *)
(***************************************************************************)
EXTENDS Integers, Sequences, FiniteSets, TLC

\* ---------------------------------------------------------------- bounds
MaxEnvEvents == 2
MaxRequests == 2

\* ------------------------------------------------------------- constants
None == -1

DOWNLOADS_DIR == "/downloads/complete"
MOVIES_DIR == "/media/movies"
TV_DIR == "/media/tv"
MIN_SIZE_BYTES == 50 * 1024 * 1024

\* ------------------------------------------------- inputs: files on disk
\* File names that may appear directly under DOWNLOADS_DIR.
Names ==
  { "inception.2010.1080p.mkv",
    "inception_2010_1080p.mkv",
    "Show.Name.S02E05.1080p.WEB-DL.x265.mkv",
    "Show.Name.E05.mkv",
    "2010.1080p.mkv",
    "readme.nfo" }

\* st_size values on either side of the threshold.
Sizes == { MIN_SIZE_BYTES - 1, MIN_SIZE_BYTES }

NoInfo ==
  [ type |-> "", title |-> "", year |-> None, season |-> None,
    episode |-> None, screen_size |-> "", source |-> "",
    video_codec |-> "", audio_codec |-> "" ]

\* guessit(path.name): the parse of each name (external library, a pure
\* function of the name).
guessit(name) ==
  CASE name = "inception.2010.1080p.mkv" ->
         [NoInfo EXCEPT !.type = "movie", !.title = "inception",
                        !.year = 2010, !.screen_size = "1080p"]
    [] name = "inception_2010_1080p.mkv" ->
         [NoInfo EXCEPT !.type = "movie", !.title = "inception",
                        !.year = 2010, !.screen_size = "1080p"]
    [] name = "Show.Name.S02E05.1080p.WEB-DL.x265.mkv" ->
         [NoInfo EXCEPT !.type = "episode", !.title = "Show Name",
                        !.season = 2, !.episode = 5,
                        !.screen_size = "1080p", !.source = "Web",
                        !.video_codec = "H.265"]
    [] name = "Show.Name.E05.mkv" ->
         [NoInfo EXCEPT !.type = "episode", !.title = "Show Name",
                        !.episode = 5]
    [] name = "2010.1080p.mkv" ->
         [NoInfo EXCEPT !.type = "movie", !.year = 2010,
                        !.screen_size = "1080p"]
    [] OTHER -> NoInfo

\* path.suffix
Suffix(name) == IF name = "readme.nfo" THEN ".nfo" ELSE ".mkv"

\* str(x).upper() on the tag tokens guessit produces here.
Upper(s) ==
  CASE s = "1080p" -> "1080P"
    [] s = "Web" -> "WEB"
    [] OTHER -> s

\* ------------------------------------------------ the metadata service
\* How the TMDB endpoint answers a request at the moment:
\*   "timeout"   requests.get raises (network error or timeout)
\*   "malformed" 200 with a body r.json() cannot decode (raises)
\*   "notok"     a non-success status (r.ok is false)
\*   "empty"     success, "results" is empty
\*   "hit"       success, "results" has a first-ranked candidate
ServiceStates == { "timeout", "malformed", "notok", "empty", "hit" }

\* results[0] of /search/movie for a query.
MovieCatalogue(title) ==
  IF title = "inception"
    THEN [title |-> "Inception", release_date |-> "2010-07-16"]
    ELSE [title |-> "", release_date |-> ""]

\* results[0] of /search/tv for a query.
TvCatalogue(title) ==
  IF title = "Show Name"
    THEN [name |-> "The Show Name", first_air_date |-> "2019-01-01"]
    ELSE [name |-> "", first_air_date |-> ""]

\* int(d[:4]) if d[:4].isdigit(), else None.
Year4(d) ==
  CASE d = "2010-07-16" -> 2010
    [] d = "2019-01-01" -> 2019
    [] OTHER -> None

\* f"{n:02d}"
Pad2(n) == IF n >= 0 /\ n < 10 THEN "0" \o ToString(n) ELSE ToString(n)

\* A lookup's outcome: called (a request was sent), raised (an exception
\* left the function), found (a dict was returned rather than None).
NoMatch(called) ==
  [ called |-> called, raised |-> FALSE, found |-> FALSE,
    title |-> "", year |-> None ]

Raised ==
  [ called |-> TRUE, raised |-> TRUE, found |-> FALSE,
    title |-> "", year |-> None ]

tmdb_search_movie(key, svc, title, year) ==
  IF ~key THEN NoMatch(FALSE)
  ELSE IF svc \in {"timeout", "malformed"} THEN Raised
  ELSE IF svc \in {"notok", "empty"} THEN NoMatch(TRUE)
  ELSE LET best == MovieCatalogue(title)
           y4 == Year4(best.release_date)
       IN [ called |-> TRUE, raised |-> FALSE, found |-> TRUE,
            title |-> IF best.title # "" THEN best.title ELSE title,
            year |-> IF y4 # None THEN y4
                     ELSE IF year # None /\ year # 0 THEN year ELSE None ]

tmdb_search_tv(key, svc, title) ==
  IF ~key THEN NoMatch(FALSE)
  ELSE IF svc \in {"timeout", "malformed"} THEN Raised
  ELSE IF svc \in {"notok", "empty"} THEN NoMatch(TRUE)
  ELSE LET best == TvCatalogue(title)
       IN [ called |-> TRUE, raised |-> FALSE, found |-> TRUE,
            title |-> IF best.name # "" THEN best.name ELSE title,
            year |-> Year4(best.first_air_date) ]

\* ------------------------------------------------------ build_tag_suffix
RECURSIVE Dedup(_, _)
Dedup(tags, seen) ==
  IF tags = <<>> THEN <<>>
  ELSE IF Head(tags) \in seen THEN Dedup(Tail(tags), seen)
  ELSE <<Head(tags)>> \o Dedup(Tail(tags), seen \cup {Head(tags)})

RECURSIVE Join(_)
Join(toks) ==
  IF toks = <<>> THEN ""
  ELSE IF Len(toks) = 1 THEN Head(toks)
  ELSE Head(toks) \o " " \o Join(Tail(toks))

build_tag_suffix(info) ==
  LET fields == << info.screen_size, info.source,
                   info.video_codec, info.audio_codec >>
      present == SelectSeq(fields, LAMBDA t : t # "")
      tags == [i \in 1..Len(present) |-> Upper(present[i])]
      uniq == Dedup(tags, {})
  IN IF uniq # <<>> THEN " [" \o Join(uniq) \o "]" ELSE ""

\* ------------------------------------------------------ the file handlers
\* What one call of process_file did.  mkdirs are the directories it
\* created, dest the destination it computed, raised whether an exception
\* left process_file.
Result(name, size, writable) ==
  [ name |-> name, size |-> size, writable |-> writable,
    parsed |-> FALSE, outcome |-> "notfile",
    called |-> FALSE, found |-> FALSE,
    mkdirTried |-> FALSE, mkdirs |-> {},
    moveTried |-> FALSE, moved |-> FALSE, dest |-> "",
    raised |-> FALSE ]

\* Path.mkdir(parents=True, exist_ok=True) of the chain ds (outermost
\* first) followed by shutil.move to dest.  On a destination tree that is
\* not writable, creating a missing directory raises, and so does the move.
MkdirAndMove(r, ds, dirs, dest) ==
  LET missing == { ds[i] : i \in 1..Len(ds) } \ dirs
  IN IF missing # {} /\ ~r.writable
       THEN [r EXCEPT !.mkdirTried = TRUE, !.dest = "",
                      !.raised = TRUE, !.outcome = "error"]
     ELSE IF ~r.writable
       THEN [r EXCEPT !.mkdirTried = TRUE, !.mkdirs = missing,
                      !.moveTried = TRUE, !.dest = dest,
                      !.raised = TRUE, !.outcome = "error"]
     ELSE [r EXCEPT !.mkdirTried = TRUE, !.mkdirs = missing,
                    !.moveTried = TRUE, !.moved = TRUE, !.dest = dest,
                    !.outcome = "moved"]

\* (a variant that only looks at the title)
EpisodeSkipsTitleOnly(info) == info.title = ""

\* not title or season is None or episode is None
EpisodeSkips(info) ==
  info.title = "" \/ info.season = None \/ info.episode = None

\* not title
MovieSkips(info) == info.title = ""

handle_episode(r, info, key, svc, dirs) ==
  IF EpisodeSkips(info) THEN [r EXCEPT !.outcome = "missing"]
  ELSE
    LET tm == tmdb_search_tv(key, svc, info.title)
        r1 == [r EXCEPT !.called = tm.called, !.found = tm.found]
    IN IF tm.raised
         THEN [r1 EXCEPT !.raised = TRUE, !.outcome = "error"]
       ELSE
         LET show_name ==
               IF tm.found /\ tm.title # "" THEN tm.title ELSE info.title
             tag_suffix == build_tag_suffix(info)
             show_dir == TV_DIR \o "/" \o show_name
             season_dir == show_dir \o "/Season " \o Pad2(info.season)
             new_name == show_name \o " - S" \o Pad2(info.season)
                           \o "E" \o Pad2(info.episode)
                           \o tag_suffix \o Suffix(r.name)
             dest == season_dir \o "/" \o new_name
         IN MkdirAndMove(r1, <<TV_DIR, show_dir, season_dir>>, dirs, dest)

handle_movie(r, info, key, svc, dirs) ==
  IF MovieSkips(info) THEN [r EXCEPT !.outcome = "missing"]
  ELSE
    LET tm == tmdb_search_movie(key, svc, info.title, info.year)
        r1 == [r EXCEPT !.called = tm.called, !.found = tm.found]
    IN IF tm.raised
         THEN [r1 EXCEPT !.raised = TRUE, !.outcome = "error"]
       ELSE
         LET title ==
               IF tm.found /\ tm.title # "" THEN tm.title ELSE info.title
             year ==
               IF tm.found /\ tm.year # None /\ tm.year # 0
                 THEN tm.year ELSE info.year
             tag_suffix == build_tag_suffix(info)
             base ==
               IF year # None /\ year # 0
                 THEN title \o " (" \o ToString(year) \o ")"
                 ELSE title
             new_name == base \o tag_suffix \o Suffix(r.name)
             dest == MOVIES_DIR \o "/" \o new_name
         IN MkdirAndMove(r1, <<MOVIES_DIR>>, dirs, dest)

\* (a variant without the size filter)
NeverTooSmall(size) == FALSE

\* path.stat().st_size < MIN_SIZE_BYTES
TooSmall(size) == size < MIN_SIZE_BYTES

\* process_file(path) for DOWNLOADS_DIR/name, on downloads (name -> size),
\* the created directories dirs and the destination tree's writability.
process_file(name, downloads, dirs, writable, key, svc) ==
  IF name \notin DOMAIN downloads THEN Result(name, 0, writable)
  ELSE
    LET r == Result(name, downloads[name], writable)
    IN IF TooSmall(downloads[name]) THEN [r EXCEPT !.outcome = "small"]
       ELSE
         LET info == guessit(name)
             rp == [r EXCEPT !.parsed = TRUE]
         IN IF info.type = "episode"
              THEN handle_episode(rp, info, key, svc, dirs)
            ELSE IF info.type = "movie"
              THEN handle_movie(rp, info, key, svc, dirs)
            ELSE [rp EXCEPT !.outcome = "unknown"]

\* ------------------------------------------------------------- the state
VARIABLES
  mode,          \* "once" (--once in sys.argv) or "server"
  pc,            \* main(): "start", "sweeping", "serving", "exited", "crashed"
  apiKey,        \* TMDB_API_KEY is non-empty
  rootState,     \* DOWNLOADS_DIR: "present", "absent" or "denied" (stat fails
                 \* with a permission error)
  service,       \* how the metadata service answers, in ServiceStates
  writable,      \* the destination tree accepts mkdir and rename
  downloads,     \* files under DOWNLOADS_DIR: name -> st_size
  media,         \* files under MOVIES_DIR and TV_DIR: path -> content
  dirs,          \* directories created under the destination roots
  pending,       \* connections waiting in the listen queue
  arrived,       \* requests received so far
  accepted,      \* requests taken from the queue so far
  handlers,      \* sweep_once executions in progress: id -> sweep state
  lastResponse,  \* the most recent HTTP response sent
  lastSweep,     \* the most recent sweep_once execution that ended
  envEvents,     \* environment events so far
  stable         \* a sweep has completed and nothing outside the program
                 \* has changed since that sweep began

vars ==
  << mode, pc, apiKey, rootState, service, writable, downloads, media, dirs,
     pending, arrived, accepted, handlers, lastResponse, lastSweep,
     envEvents, stable >>

fsVars == << downloads, media, dirs >>
envVars == << apiKey, rootState, service, writable, envEvents >>
httpVars == << pending, arrived, accepted, lastResponse >>

Requests ==
  { [method |-> "POST", path |-> "/scan-once"],
    [method |-> "POST", path |-> "/other"],
    [method |-> "GET", path |-> "/scan-once"] }

MainRequest == [method |-> "", path |-> "--once"]

NoResponse ==
  [ id |-> 0, method |-> "", path |-> "", status |-> 0, body |-> "",
    sweeps |-> 0, raised |-> FALSE, root |-> "", left |-> 0 ]

NoSweep ==
  [ id |-> -1, root |-> "", listed |-> {}, done |-> <<>>, tries |-> 0,
    raised |-> FALSE, rerun |-> FALSE ]

Init ==
  /\ mode \in {"once", "server"}
  /\ pc = "start"
  /\ apiKey \in BOOLEAN
  /\ rootState \in {"present", "absent", "denied"}
  /\ service \in ServiceStates
  /\ writable \in BOOLEAN
  /\ downloads = <<>>
  /\ media = <<>>
  /\ dirs = {}
  /\ pending = <<>>
  /\ arrived = 0
  /\ accepted = 0
  /\ handlers = <<>>
  /\ lastResponse = NoResponse
  /\ lastSweep = NoSweep
  /\ envEvents = 0
  /\ stable = FALSE

\* ------------------------------------------------------------ sweep_once
\* (a variant that treats a missing root as an error)
SweepEntryStrict(root) ==
  IF root = "present" THEN "walk" ELSE "raise"

\* DOWNLOADS_DIR.exists(): a missing root returns early; a stat that fails
\* with a permission error is re-raised by Path.exists and leaves sweep_once.
SweepEntry(root) ==
  CASE root = "present" -> "walk"
    [] root = "absent" -> "return"
    [] OTHER -> "raise"

\* (a variant whose loop ends after the first entry)
WalkFirstOnly(d) ==
  IF DOMAIN d = {} THEN {} ELSE { CHOOSE n \in DOMAIN d : TRUE }

\* os.walk(DOWNLOADS_DIR): the files listed, in no particular order.
WalkFiles(d) == DOMAIN d

\* (a variant without the per-file except clause)
PropagatesRaised(res) == res.raised

\* try: process_file(path) / except Exception: nothing raised by
\* process_file leaves the loop body.
Propagates(res) == FALSE

NewSweep(req, rerun) ==
  [ req |-> req, root |-> rootState, listed |-> WalkFiles(downloads),
    todo |-> WalkFiles(downloads), done |-> <<>>, tries |-> 0,
    rerun |-> rerun, clean |-> TRUE ]

Ended(h, raised) ==
  [ id |-> h, root |-> handlers[h].root, listed |-> handlers[h].listed,
    done |-> handlers[h].done, tries |-> handlers[h].tries,
    raised |-> raised, rerun |-> handlers[h].rerun ]

EndedAtEntry(h, raised) ==
  [ id |-> h, root |-> rootState, listed |-> {}, done |-> <<>>,
    tries |-> 0, raised |-> raised, rerun |-> stable ]

Response(id, req, status, body, sweeps, raised, root, left) ==
  [ id |-> id, method |-> req.method, path |-> req.path,
    status |-> status, body |-> body, sweeps |-> sweeps,
    raised |-> raised, root |-> root, left |-> left ]

Without(f, k) == [x \in DOMAIN f \ {k} |-> f[x]]

\* ------------------------------------------------------------------ main
\* main() with --once: sweep_once() in the main thread, then return.
RunOnce ==
  /\ pc = "start" /\ mode = "once"
  /\ LET e == SweepEntry(rootState)
     IN CASE e = "walk" ->
               /\ handlers' = (0 :> NewSweep(MainRequest, stable))
               /\ pc' = "sweeping"
               /\ UNCHANGED << lastSweep, stable >>
          [] e = "return" ->
               /\ pc' = "exited"
               /\ lastSweep' = EndedAtEntry(0, FALSE)
               /\ stable' = TRUE
               /\ UNCHANGED handlers
          [] OTHER ->
               /\ pc' = "crashed"
               /\ lastSweep' = EndedAtEntry(0, TRUE)
               /\ stable' = FALSE
               /\ UNCHANGED handlers
  /\ UNCHANGED << mode, envVars, fsVars, httpVars >>

\* main() without --once: HTTPServer(("0.0.0.0", 8000), TriggerHandler)
\* and serve_forever().
StartServer ==
  /\ pc = "start" /\ mode = "server"
  /\ pc' = "serving"
  /\ UNCHANGED << mode, envVars, fsVars, httpVars, handlers, lastSweep,
                  stable >>

\* A client connects and sends a request.
RequestArrives(req) ==
  /\ pc = "serving"
  /\ arrived < MaxRequests
  /\ pending' = Append(pending, req)
  /\ arrived' = arrived + 1
  /\ UNCHANGED << mode, pc, envVars, fsVars, accepted, handlers,
                  lastResponse, lastSweep, stable >>

\* (a variant that serves each connection in its own thread)
CanAcceptThreaded(hs) == TRUE

\* HTTPServer handles one request at a time: serve_forever takes the next
\* connection only after the previous handler has returned.
CanAccept(hs) == DOMAIN hs = {}

\* (a variant that sweeps on any POST)
RoutesToSweepAnyPath(req) == TRUE

\* do_POST: self.path == "/scan-once"
RoutesToSweep(req) == req.path = "/scan-once"

\* BaseHTTPRequestHandler.handle_one_request looks up do_<command>; the
\* class defines do_POST only, so any other method gets 501.
HasMethod(req) == req.method = "POST"

\* The server takes a request and runs its handler up to the first file.
Accept ==
  /\ pc = "serving"
  /\ pending # <<>>
  /\ CanAccept(handlers)
  /\ LET req == Head(pending)
         id == accepted + 1
         e == SweepEntry(rootState)
     IN /\ pending' = Tail(pending)
        /\ accepted' = id
        /\ IF ~HasMethod(req) THEN
             /\ lastResponse' =
                  Response(id, req, 501, "Unsupported method", 0, FALSE, "", 0)
             /\ UNCHANGED << handlers, lastSweep, stable >>
           ELSE IF ~RoutesToSweep(req) THEN
             /\ lastResponse' = Response(id, req, 404, "", 0, FALSE, "", 0)
             /\ UNCHANGED << handlers, lastSweep, stable >>
           ELSE IF e = "walk" THEN
             /\ handlers' = (id :> NewSweep(req, stable)) @@ handlers
             /\ UNCHANGED << lastResponse, lastSweep, stable >>
           ELSE IF e = "return" THEN
             /\ lastResponse' =
                  Response(id, req, 200, "OK", 1, FALSE, rootState, 0)
             /\ lastSweep' = EndedAtEntry(id, FALSE)
             /\ stable' = TRUE
             /\ UNCHANGED handlers
           ELSE
             /\ lastResponse' =
                  Response(id, req, 500, "ERROR", 1, TRUE, rootState, 0)
             /\ lastSweep' = EndedAtEntry(id, TRUE)
             /\ stable' = FALSE
             /\ UNCHANGED handlers
  /\ UNCHANGED << mode, pc, envVars, fsVars, arrived >>

\* One iteration of the loop in sweep_once: process_file on one listed
\* file inside the try/except, and its effect on the filesystem.
ProcessFile(h, name) ==
  /\ h \in DOMAIN handlers
  /\ name \in handlers[h].todo
  /\ LET sw == handlers[h]
         res == process_file(name, downloads, dirs, writable, apiKey, service)
         sw1 == [sw EXCEPT !.todo = @ \ {name},
                           !.done = (name :> res) @@ @,
                           !.tries = @ + 1]
     IN /\ dirs' = dirs \cup res.mkdirs
        /\ IF res.moved
             THEN /\ downloads' = Without(downloads, name)
                  /\ media' = (res.dest :> [name |-> name, size |-> res.size])
                                @@ media
             ELSE UNCHANGED << downloads, media >>
        /\ IF Propagates(res)
             THEN /\ handlers' = Without(handlers, h)
                  /\ lastSweep' =
                       [ id |-> h, root |-> sw1.root, listed |-> sw1.listed,
                         done |-> sw1.done, tries |-> sw1.tries,
                         raised |-> TRUE, rerun |-> sw1.rerun ]
                  /\ stable' = FALSE
                  /\ IF h = 0
                       THEN pc' = "crashed" /\ UNCHANGED lastResponse
                       ELSE /\ lastResponse' =
                                 Response(h, sw.req, 500, "ERROR", 1, TRUE,
                                          sw.root, Cardinality(sw1.todo))
                            /\ UNCHANGED pc
             ELSE /\ handlers' = [handlers EXCEPT ![h] = sw1]
                  /\ UNCHANGED << pc, lastResponse, lastSweep, stable >>
  /\ UNCHANGED << mode, envVars, pending, arrived, accepted >>

\* The loop is over: sweep_once returns; do_POST answers 200 "OK", or
\* main returns.
SweepDone(h) ==
  /\ h \in DOMAIN handlers
  /\ handlers[h].todo = {}
  /\ handlers' = Without(handlers, h)
  /\ lastSweep' = Ended(h, FALSE)
  /\ stable' = handlers[h].clean
  /\ IF h = 0
       THEN pc' = "exited" /\ UNCHANGED lastResponse
       ELSE /\ lastResponse' =
                 Response(h, handlers[h].req, 200, "OK", 1, FALSE,
                          handlers[h].root, 0)
            /\ UNCHANGED pc
  /\ UNCHANGED << mode, envVars, fsVars, pending, arrived, accepted >>

\* ----------------------------------------------------------- environment
Disturbed == [h \in DOMAIN handlers |-> [handlers[h] EXCEPT !.clean = FALSE]]

EnvStep ==
  /\ envEvents < MaxEnvEvents
  /\ envEvents' = envEvents + 1
  /\ stable' = FALSE
  /\ handlers' = Disturbed
  /\ UNCHANGED << mode, pc, apiKey, media, dirs, httpVars, lastSweep >>

\* A download completes: a new file appears under DOWNLOADS_DIR.
FileArrives(name, size) ==
  /\ rootState = "present"
  /\ name \notin DOMAIN downloads
  /\ downloads' = (name :> size) @@ downloads
  /\ EnvStep
  /\ UNCHANGED << rootState, service, writable >>

\* The metadata service starts answering differently.
ServiceChanges(s) ==
  /\ s # service
  /\ service' = s
  /\ EnvStep
  /\ UNCHANGED << rootState, downloads, writable >>

\* The destination tree becomes read-only or writable again.
WritableChanges ==
  /\ writable' = ~writable
  /\ EnvStep
  /\ UNCHANGED << rootState, downloads, service >>

\* The (empty) source root is mounted, unmounted or loses its permissions.
RootChanges(r) ==
  /\ DOMAIN downloads = {}
  /\ r # rootState
  /\ rootState' = r
  /\ EnvStep
  /\ UNCHANGED << downloads, service, writable >>

Next ==
  \/ RunOnce
  \/ StartServer
  \/ \E req \in Requests : RequestArrives(req)
  \/ Accept
  \/ \E h \in DOMAIN handlers : \E n \in Names : ProcessFile(h, n)
  \/ \E h \in DOMAIN handlers : SweepDone(h)
  \/ \E n \in Names : \E z \in Sizes : FileArrives(n, z)
  \/ \E s \in ServiceStates : ServiceChanges(s)
  \/ WritableChanges
  \/ \E r \in {"present", "absent", "denied"} : RootChanges(r)

Spec == Init /\ [][Next]_vars

\* The scheduling the program provides: the main thread and the server
\* loop keep running; clients and the environment owe nothing.
FairSpec ==
  /\ Spec
  /\ WF_vars(RunOnce)
  /\ WF_vars(StartServer)
  /\ WF_vars(Accept)
  /\ WF_vars(\E h \in DOMAIN handlers : \E n \in Names : ProcessFile(h, n))
  /\ WF_vars(\E h \in DOMAIN handlers : SweepDone(h))

\* ---------------------------------------------------------------- claims
ScanOnce == [method |-> "POST", path |-> "/scan-once"]

TotalFiles == Cardinality(DOMAIN downloads) + Cardinality(DOMAIN media)

\* Results of the sweeps in progress, and of the last sweep that ended.
ActiveResults ==
  UNION { { handlers[h].done[n] : n \in DOMAIN handlers[h].done }
          : h \in DOMAIN handlers }

LastResults == { lastSweep.done[n] : n \in DOMAIN lastSweep.done }

StillInPlace(r) ==
  r.name \in DOMAIN downloads /\ downloads[r.name] = r.size

\* C1: at most one execution of sweep_once is in progress at any time, so
\* no file is listed for processing by two sweeps at once.
C1_OneSweepAtATime ==
  /\ Cardinality(DOMAIN handlers) <= 1
  /\ \A h1, h2 \in DOMAIN handlers :
       h1 # h2 => handlers[h1].todo \cap handlers[h2].todo = {}

\* A trigger waits in the queue while a sweep is in flight.
C1_Witness ==
  /\ DOMAIN handlers # {}
  /\ pending # <<>>
  /\ Head(pending) = ScanOnce
  /\ \E h \in DOMAIN handlers : handlers[h].todo # {}

\* The destination the file gets when no API key is configured.
FilenameDest(r) ==
  process_file(r.name, (r.name :> r.size), {}, TRUE, FALSE, "hit").dest

\* C2: a metadata lookup that fails in any way yields "no match", and the
\* file is moved to its filename-derived destination as if no API key were
\* configured.
C2_LookupFailureFallsBack ==
  \A r \in ActiveResults \cup LastResults :
    (r.called /\ ~r.found /\ r.writable) =>
      (~r.raised /\ r.moved /\ r.dest = FilenameDest(r))

\* C3: no step deletes or overwrites a file: the number of files under the
\* source and destination roots never decreases.
C3_NoFileLost == [][TotalFiles' >= TotalFiles]_vars

\* C4 (as stated): a sweep of a missing source root processes nothing, and
\* the on-demand trigger answers it with 500 "ERROR".
C4_AbsentRootAnswersError ==
  /\ \A h \in DOMAIN handlers : handlers[h].root = "present"
  /\ lastSweep.root = "absent" =>
       (lastSweep.listed = {} /\ lastSweep.tries = 0)
  /\ lastResponse.root = "absent" =>
       (lastResponse.status = 500 /\ lastResponse.body = "ERROR")

\* C4 (amended): a sweep of a missing source root processes nothing and
\* returns normally, and the on-demand trigger answers it with 200 "OK".
C4_AbsentRootAnswersOk ==
  /\ \A h \in DOMAIN handlers : handlers[h].root = "present"
  /\ lastSweep.root = "absent" =>
       (lastSweep.listed = {} /\ lastSweep.tries = 0 /\ ~lastSweep.raised)
  /\ lastResponse.root = "absent" =>
       (lastResponse.status = 200 /\ lastResponse.body = "OK"
          /\ ~lastResponse.raised)

\* POST /scan-once was answered while the source root was missing.
C4_Witness ==
  /\ lastResponse.root = "absent"
  /\ lastResponse.id = lastSweep.id
  /\ lastResponse.method = "POST"

\* C5: in server mode a sweep eventually runs even if no request arrives.
C5_PeriodicSweep ==
  (pc = "serving") ~> (DOMAIN handlers # {} \/ lastSweep.id # -1)

\* C6: an exception in one file's processing stays inside that iteration:
\* every listed file is attempted exactly once and the sweep ends normally.
C6_FailuresContained ==
  /\ \A h \in DOMAIN handlers :
       LET sw == handlers[h]
       IN /\ sw.todo \cup DOMAIN sw.done = sw.listed
          /\ sw.todo \cap DOMAIN sw.done = {}
          /\ sw.tries = Cardinality(DOMAIN sw.done)
  /\ lastSweep.root = "present" =>
       /\ ~lastSweep.raised
       /\ DOMAIN lastSweep.done = lastSweep.listed
       /\ lastSweep.tries = Cardinality(lastSweep.listed)

\* A sweep ended normally although each of its two files raised.
C6_Witness ==
  /\ lastSweep.root = "present"
  /\ ~lastSweep.raised
  /\ Cardinality(lastSweep.listed) >= 2
  /\ \A r \in LastResults : r.raised

\* C7: a file below MIN_SIZE_BYTES is not parsed, looked up or moved, and
\* stays at its path.
C7_SmallFilesUntouched ==
  \A r \in ActiveResults \cup LastResults :
    (r.outcome # "notfile" /\ r.size < MIN_SIZE_BYTES) =>
      /\ ~r.parsed /\ ~r.called
      /\ ~r.mkdirTried /\ ~r.moveTried /\ ~r.moved /\ ~r.raised
      /\ StillInPlace(r)

\* A sweep that met an undersized file has ended.
C7_Witness ==
  \E r \in LastResults :
    r.size = MIN_SIZE_BYTES - 1 /\ guessit(r.name).type = "movie"
      /\ guessit(r.name).title # ""

\* The parse cannot be placed: neither movie nor episode, or a field its
\* kind requires is absent.
Unplaceable(name) ==
  LET info == guessit(name)
  IN \/ info.type \notin {"movie", "episode"}
     \/ info.type = "episode" /\ info.title = ""
     \/ info.type = "episode" /\ info.season = None
     \/ info.type = "episode" /\ info.episode = None
     \/ info.type = "movie" /\ info.title = ""

\* C8: an unplaceable candidate is skipped without error: no lookup, no
\* directory, no move, and it stays at its path.
C8_UnplaceableSkipped ==
  \A r \in ActiveResults \cup LastResults :
    (r.parsed /\ Unplaceable(r.name)) =>
      /\ ~r.called /\ ~r.mkdirTried /\ r.mkdirs = {}
      /\ ~r.moveTried /\ ~r.moved /\ ~r.raised
      /\ StillInPlace(r)

\* A sweep skipped an episode without season and one more unplaceable file.
C8_Witness ==
  /\ \E r \in LastResults :
       r.parsed /\ guessit(r.name).type = "episode"
         /\ guessit(r.name).season = None
  /\ \E r \in LastResults :
       r.parsed /\ guessit(r.name).type # "episode" /\ Unplaceable(r.name)

\* What the trigger endpoint answers, common to both readings of C9.
TriggerAnswers ==
  /\ \A h \in DOMAIN handlers : h # 0 => handlers[h].req = ScanOnce
  /\ (lastResponse.method = "POST" /\ lastResponse.path = "/scan-once") =>
       /\ lastResponse.sweeps = 1
       /\ lastResponse.id \notin DOMAIN handlers
       /\ lastSweep.id >= lastResponse.id
       /\ ~lastResponse.raised =>
            (lastResponse.status = 200 /\ lastResponse.body = "OK"
               /\ lastResponse.left = 0)
       /\ lastResponse.raised =>
            (lastResponse.status = 500 /\ lastResponse.body = "ERROR")

\* C9 (as stated): any request other than POST /scan-once gets 404 and
\* starts no sweep; POST /scan-once runs one sweep and answers "OK" iff it
\* raised nothing, else "ERROR".
C9_OthersNotFound ==
  /\ TriggerAnswers
  /\ (lastResponse.id # 0 /\ ~(lastResponse.method = "POST"
                               /\ lastResponse.path = "/scan-once")) =>
       (lastResponse.status = 404 /\ lastResponse.sweeps = 0)

\* C9 (amended): a POST to another path gets 404, a request with another
\* method gets 501, neither starts a sweep; POST /scan-once as stated.
C9_OthersRejected ==
  /\ TriggerAnswers
  /\ (lastResponse.method = "POST" /\ lastResponse.path # "/scan-once") =>
       (lastResponse.status = 404 /\ lastResponse.sweeps = 0)
  /\ (lastResponse.id # 0 /\ lastResponse.method # "POST") =>
       (lastResponse.status = 501 /\ lastResponse.sweeps = 0)

\* A POST to another path was answered after a sweep request had been.
C9_Witness ==
  /\ lastResponse.method = "POST"
  /\ lastResponse.path = "/other"
  /\ lastSweep.id > 0
  /\ lastSweep.id < lastResponse.id

\* C10: once a sweep has completed and nothing outside the program has
\* changed since it began, the program's steps leave the filesystem as it
\* is: a further sweep attempts the remaining files and moves none.
C10_RerunIdempotent ==
  [][(stable /\ stable') => UNCHANGED fsVars]_vars

\* A second sweep has attempted again a file the first one left behind.
C10_Witness ==
  /\ stable
  /\ \E h \in DOMAIN handlers :
       /\ handlers[h].rerun
       /\ handlers[h].done # <<>>
       /\ \E n \in DOMAIN handlers[h].done :
            /\ n \in DOMAIN lastSweep.done
            /\ handlers[h].done[n].raised

====
